---- MODULE Spec2Model ----
(***************************************************************************)
(* Model of FiltererApp (full_local_main.py): the DNO store kept in the    *)
(* SQLite file dno.db, the in-memory inventory DataFrame, the zero / low   *)
(* classification sets, the SAP replay and the session log.                *)
(*                                                                         *)
(* Text values (Python str) are tuples of one-character strings, so that   *)
(* str.strip, str.startswith, int(str) and str(int) are computed and not   *)
(* assumed.  Spreadsheet cells are records [t, n, s]: t is the Python type *)
(* of the cell ("int", "float", "str"), n the number (a float is held in   *)
(* tenths), s the text.                                                    *)
(***************************************************************************)
EXTENDS Integers, Sequences, FiniteSets, TLC

\* ------------------------------------------------------------------ bounds
MaxFileLen == 2        \* rows of one uploaded inventory workbook
MaxSheetLen == 2       \* cells of one imported DNO workbook
MaxDnoChanges == 2     \* cap of the counter new_found_dnos

\* ------------------------------------------------------- program constants
LOW_THRESHOLD == 2

departments ==
    [Grocery |-> {"Grocery"},
     Meat |-> {"Meat", "Deli"},
     Bakery |-> {"Bakery Commercial", "Bakery Instore"},
     DairyFrozen |-> {"Bulk"},
     Seafood |-> {"Seafood"},
     HMR |-> {"HMR"},
     Produce |-> {"Produce"},
     Home |-> {"Home", "Entertainment"}]

BANNED_CATS ==
    << <<"N", "u", "t", "s", "/", " ", "D", "r", "i", "e", "d", " ", "F", "r", "u", "i", "t">>,
       <<"F", "r", "e", "s", "h", "-">>,
       <<"F", "i", "e", "l", "d", " ", "V", "e", "g">>,
       <<"R", "o", "o", "t", " ", "V", "e", "g">>,
       <<"S", "a", "l", "a", "d", " ", "V", "e", "g">>,
       <<"C", "o", "o", "k", "i", "n", "g", " ", "V", "e", "g">>,
       <<"P", "e", "p", "p", "e", "r", "s">>,
       <<"T", "o", "m", "a", "t", "o", "e", "s">>,
       <<"L", "a", "m", "b">>,
       <<"S", "a", "u", "s", "a", "g", "e">>,
       <<"H", "a", "m", "s">>,
       <<"B", "o", "o", "k", "s", "-">>,
       <<"M", "a", "g", "a", "z", "i", "n", "e", "s">>,
       <<"N", "e", "w", "s", "p", "a", "p", "e", "r", "s">> >>

\* ------------------------------------------------------------ Python text
DigitChars == <<"0", "1", "2", "3", "4", "5", "6", "7", "8", "9">>

IsDigit(c) == \E i \in 1..10 : DigitChars[i] = c

DigitVal(c) == (CHOOSE i \in 1..10 : DigitChars[i] = c) - 1

RECURSIVE lstrip(_)
lstrip(s) == IF s # <<>> /\ Head(s) = " " THEN lstrip(Tail(s)) ELSE s

RECURSIVE rstrip(_)
rstrip(s) ==
    IF s # <<>> /\ s[Len(s)] = " " THEN rstrip(SubSeq(s, 1, Len(s) - 1)) ELSE s

\* str.strip()
strip(s) == rstrip(lstrip(s))

\* str.startswith(prefix)
startswith(s, prefix) ==
    /\ Len(prefix) <= Len(s)
    /\ SubSeq(s, 1, Len(prefix)) = prefix

RECURSIVE NatToStr(_)
NatToStr(n) ==
    IF n < 10 THEN <<DigitChars[n + 1]>>
    ELSE NatToStr(n \div 10) \o <<DigitChars[(n % 10) + 1]>>

\* str(n) of a Python int
IntToStr(n) == IF n < 0 THEN <<"-">> \o NatToStr(0 - n) ELSE NatToStr(n)

RECURSIVE DigitsToNat(_)
DigitsToNat(s) ==
    IF s = <<>> THEN 0
    ELSE DigitsToNat(SubSeq(s, 1, Len(s) - 1)) * 10 + DigitVal(s[Len(s)])

\* int(s) of a Python str: surrounding blanks are dropped, one sign is
\* allowed, the rest must be decimal digits; anything else is a ValueError.
\* (The alphabet of the model has no "_" digit separator.)
ParseInt(s) ==
    LET t == strip(s)
        signed == t # <<>> /\ Head(t) \in {"+", "-"}
        body == IF signed THEN Tail(t) ELSE t
        valid == body # <<>> /\ \A i \in 1..Len(body) : IsDigit(body[i])
        mag == IF valid THEN DigitsToNat(body) ELSE 0
    IN  [ok |-> valid,
         n |-> IF signed /\ Head(t) = "-" THEN 0 - mag ELSE mag]

\* ------------------------------------------------------ spreadsheet cells
IntCell(n) == [t |-> "int", n |-> n, s |-> <<>>]
FloatCell(tenths) == [t |-> "float", n |-> tenths, s |-> <<>>]
StrCell(s) == [t |-> "str", n |-> 0, s |-> s]

\* int(x) of a Python float held in tenths: truncation toward zero
FloatToInt(tenths) ==
    IF tenths < 0 THEN 0 - ((0 - tenths) \div 10) ELSE tenths \div 10

\* str(item) with the int() of line 166 left out: a float keeps its fraction
DnoTextOfCell_Unnormalized(item) ==
    IF item.t = "int" THEN IntToStr(item.n)
    ELSE IF item.t = "float"
    THEN IntToStr(FloatToInt(item.n)) \o <<".", DigitChars[(item.n % 10) + 1]>>
    ELSE item.s

\* import_dno, lines 165-167: the text stored for one cell of the workbook
DnoTextOfCell(item) ==
    IF item.t = "int" THEN IntToStr(item.n)
    ELSE IF item.t = "float" THEN IntToStr(FloatToInt(item.n))
    ELSE item.s

\* ----------------------------------------------------------------- inputs
T1 == <<"1">>
TA == <<"A">>

\* what the user may have typed in the "Article #" entry
Entries == {<<>>, <<" ", "1">>, TA}

\* cells of an imported DNO workbook
SheetCells == {IntCell(1), FloatCell(10), StrCell(TA)}

RECURSIVE SeqsUpTo(_, _)
SeqsUpTo(S, n) ==
    IF n = 0 THEN {<<>>}
    ELSE LET shorter == SeqsUpTo(S, n - 1)
         IN  shorter \cup {Append(q, x) : q \in {p \in shorter : Len(p) = n - 1}, x \in S}

Sheets == SeqsUpTo(SheetCells, MaxSheetLen)

\* contents of a dno.db file picked for "Import DNO File"
DbFiles == {{}, {T1, TA}}

\* contents of dno.db left by earlier sessions
StoreTexts == {T1, TA}

Cheese == <<"C", "h", "e", "e", "s", "e">>
LambGround == <<"L", "a", "m", "b", "-", "G", "r", "o", "u", "n", "d">>
lamb == <<"l", "a", "m", "b">>

Row(dep, cat, art, inv) ==
    [Department |-> dep, MerchandiseCategory |-> cat,
     ArticleDescription |-> "desc", Article |-> art, Inventory |-> inv]

InputRows ==
    {Row("Deli", Cheese, IntCell(1), 0),
     Row("Deli", Cheese, IntCell(1), 2),
     Row("Deli", LambGround, IntCell(2), 0),
     Row("Other", lamb, StrCell(T1), 3)}

\* an inventory workbook: its rows, and whether the five named columns exist.
\* A workbook that lacks a named column is only read for its first column.
Workbooks ==
    {[columns |-> TRUE, rows |-> r] : r \in SeqsUpTo(InputRows, MaxFileLen)}
    \cup {[columns |-> FALSE, rows |-> <<r>>] : r \in InputRows}

\* ------------------------------------------------------------------ state
VARIABLES
    dnoFile,          \* dno.db: "absent", "notable" (file without table), "table"
    dnoRows,          \* the rows of table dno (article TEXT UNIQUE)
    df_inventory,     \* self.df_inventory, the rows in DataFrame order
    filtered_zeros,   \* self.filtered_zeros
    filtered_lows,    \* self.filtered_lows
    zero_count,       \* self.zero_count
    new_found_dnos,   \* self.new_found_dnos
    inputted,         \* self.inputted
    lights_bool,      \* self.lights_bool
    log,              \* the entries appended to log.txt
    closed,           \* the window was destroyed
    lastOp,           \* the handler that ran last
    alert,            \* the notification that handler showed
    raised,           \* the exception that left that handler uncaught
    lastSheetIds,     \* history: the identifiers in the workbook import_dno read last
    lastIngested,     \* history: per article, the last row that survived an upload
    dropped           \* history: the rows the last upload dropped as banned

vars == <<dnoFile, dnoRows, df_inventory, filtered_zeros, filtered_lows,
          zero_count, new_found_dnos, inputted, lights_bool, log, closed,
          lastOp, alert, raised, lastSheetIds, lastIngested, dropped>>

Alert(title, msg, article, count) ==
    [title |-> title, msg |-> msg, article |-> article, count |-> count]

NoAlert == Alert("none", "none", <<>>, 0)

Init ==
    /\ \/ dnoFile = "absent" /\ dnoRows = {}
       \/ dnoFile = "table" /\ dnoRows \in SUBSET StoreTexts
    /\ df_inventory = <<>>
    /\ filtered_zeros = {}
    /\ filtered_lows = {}
    /\ zero_count = 0
    /\ new_found_dnos = 0
    /\ inputted = FALSE
    /\ lights_bool = [k \in DOMAIN departments |-> FALSE]
    /\ log = <<>>
    /\ closed = FALSE
    /\ lastOp = "init"
    /\ alert = NoAlert
    /\ raised = "none"
    /\ lastSheetIds = {}
    /\ lastIngested = {}
    /\ dropped = 0

\* ---------------------------------------------------------------- history
\* b is a prefix of cat, element by element
IsPrefixOf(b, cat) ==
    /\ Len(b) <= Len(cat)
    /\ \A k \in 1..Len(b) : cat[k] = b[k]

HasBannedPrefix(cat) == \E i \in 1..Len(BANNED_CATS) : IsPrefixOf(BANNED_CATS[i], cat)

\* the rows of a workbook that are not banned and that no later such row of
\* the workbook replaces, with the earlier rows of the articles they leave alone
LastWins(prev, rows) ==
    LET live == {j \in 1..Len(rows) : ~HasBannedPrefix(rows[j].MerchandiseCategory)}
        new == {rows[j] : j \in {i \in live :
                   \A k \in live : k > i => rows[k].Article # rows[i].Article}}
    IN  new \cup {r \in prev : \A n \in new : n.Article # r.Article}

DroppedCount(rows) ==
    Cardinality({j \in 1..Len(rows) : HasBannedPrefix(rows[j].MerchandiseCategory)})

\* the identifier a cell of a DNO workbook stands for: a number is written as
\* the decimal text of its whole part, a text is taken as it is
CanonicalId(cell) ==
    IF cell.t = "str" THEN cell.s
    ELSE IF cell.t = "int" THEN IntToStr(cell.n)
    ELSE IntToStr(CHOOSE k \in 0..cell.n : k * 10 <= cell.n /\ cell.n < (k + 1) * 10)

SheetIds(sheet) == {CanonicalId(sheet[i]) : i \in 1..Len(sheet)}

HistoryUnchanged == lastSheetIds' = {} /\ dropped' = 0 /\ UNCHANGED lastIngested

\* ------------------------------------------------------------ DNO store
\* sqlite3.connect("dno.db") creates the file when it does not exist
Connect(file) == IF file = "absent" THEN "notable" ELSE file

\* INSERT OR IGNORE INTO dno (article) VALUES (?) on a UNIQUE column
InsertOrIgnore(rows, article) == rows \cup {article}

\* DELETE FROM dno WHERE article = ?
DeleteWhere(rows, article) == rows \ {article}

\* cursor.rowcount after that DELETE
DeleteRowcount(rows, article) == IF article \in rows THEN 1 ELSE 0

\* fetch_dno_articles: no file gives set(); otherwise the table is created
\* when missing and every stored text goes through int(), which raises
\* ValueError on a text that is not a number.  The caller only tests
\* membership in the returned list, so the list is held as the set of its
\* elements.
fetch_dno_articles(file, rows) ==
    IF file = "absent"
    THEN [raised |-> "none", val |-> {}, file |-> file]
    ELSE [raised |-> IF \A r \in rows : ParseInt(r).ok THEN "none" ELSE "ValueError",
          val |-> {ParseInt(r).n : r \in {x \in rows : ParseInt(x).ok}},
          file |-> "table"]

RECURSIVE InsertAll(_, _)
\* import_dno, lines 164-167: the loop over all_values
InsertAll(rows, values) ==
    IF values = <<>> THEN rows
    ELSE InsertAll(InsertOrIgnore(rows, DnoTextOfCell(Head(values))), Tail(values))

InventoryUnchanged ==
    UNCHANGED <<df_inventory, filtered_zeros, filtered_lows, zero_count, lights_bool>>

SessionUnchanged == UNCHANGED <<inputted, log, closed>>

\* import_dno, lines 141-143: the file dialog was cancelled
ImportNoFile ==
    /\ alert' = Alert("Error", "No file selected.", <<>>, 0)
    /\ lastSheetIds' = {}
    /\ UNCHANGED <<dnoFile, dnoRows, new_found_dnos>>

\* import_dno, lines 145-148: a .db file replaces dno.db
ImportDb(db) ==
    /\ dnoFile' = "table"
    /\ dnoRows' = db
    /\ alert' = Alert("Success", "dno.db replaced.", <<>>, 0)
    /\ lastSheetIds' = {}
    /\ UNCHANGED new_found_dnos

\* import_dno, lines 150-178: a workbook is merged into dno.db
ImportExcel(all_values) ==
    LET existing == IF dnoFile = "table" THEN dnoRows ELSE {}
        merged == InsertAll(existing, all_values)
        diff == Cardinality(merged) - Cardinality(existing)
    IN  /\ new_found_dnos + diff <= MaxDnoChanges
        /\ dnoFile' = "table"
        /\ dnoRows' = merged
        /\ lastSheetIds' = SheetIds(all_values)
        /\ IF diff > 0
           THEN /\ alert' = Alert("", "Imported new DNO articles.", <<>>, diff)
                /\ new_found_dnos' = new_found_dnos + diff
           ELSE /\ alert' = Alert("", "No new DNO articles or all duplicates.", <<>>, 0)
                /\ UNCHANGED new_found_dnos

\* import_dno, lines 152 and 179-180: pd.read_excel fails on the file
ImportUnreadable ==
    /\ alert' = Alert("Error", "An error occurred importing DNO", <<>>, 0)
    /\ lastSheetIds' = {}
    /\ UNCHANGED <<dnoFile, dnoRows, new_found_dnos>>

import_dno ==
    /\ ~closed
    /\ \/ ImportNoFile
       \/ \E db \in DbFiles : ImportDb(db)
       \/ \E all_values \in Sheets : ImportExcel(all_values)
       \/ ImportUnreadable
    /\ lastOp' = "import_dno"
    /\ raised' = "none"
    /\ dropped' = 0
    /\ UNCHANGED lastIngested
    /\ InventoryUnchanged
    /\ SessionUnchanged

\* export_dno: the copy goes to the Downloads folder, outside the state
export_dno ==
    /\ ~closed
    /\ \/ /\ dnoFile = "absent"
          /\ alert' = Alert("Error", "No local dno.db found to export.", <<>>, 0)
       \/ /\ dnoFile # "absent"
          /\ \E copied \in BOOLEAN :
                alert' = IF copied
                         THEN Alert("Success", "dno.db exported", <<>>, 0)
                         ELSE Alert("Error", "Unable to export dno.db", <<>>, 0)
    /\ lastOp' = "export_dno"
    /\ raised' = "none"
    /\ HistoryUnchanged
    /\ UNCHANGED <<dnoFile, dnoRows, new_found_dnos>>
    /\ InventoryUnchanged
    /\ SessionUnchanged

add_new_DNO ==
    /\ ~closed
    /\ \E entry \in Entries, confirm \in BOOLEAN :
          LET article == strip(entry) IN
          IF article = <<>> \/ ~confirm
          THEN /\ alert' = NoAlert
               /\ UNCHANGED <<dnoFile, dnoRows, new_found_dnos>>
          ELSE /\ new_found_dnos < MaxDnoChanges
               /\ dnoFile' = "table"
               /\ dnoRows' = InsertOrIgnore(IF dnoFile = "table" THEN dnoRows ELSE {}, article)
               /\ alert' = Alert("Inserted", "added to DNO.", article, 0)
               /\ new_found_dnos' = new_found_dnos + 1
    /\ lastOp' = "add_new_DNO"
    /\ raised' = "none"
    /\ HistoryUnchanged
    /\ InventoryUnchanged
    /\ SessionUnchanged

remove_from_DNO ==
    /\ ~closed
    /\ \E entry \in Entries, confirm \in BOOLEAN :
          LET article == strip(entry) IN
          IF article = <<>> \/ ~confirm
          THEN /\ alert' = NoAlert
               /\ UNCHANGED <<dnoFile, dnoRows, new_found_dnos>>
          ELSE IF Connect(dnoFile) = "notable"
          THEN \* sqlite3.OperationalError: no such table: dno
               /\ dnoFile' = "notable"
               /\ alert' = Alert("Error", "no such table: dno", <<>>, 0)
               /\ UNCHANGED <<dnoRows, new_found_dnos>>
          ELSE /\ dnoRows' = DeleteWhere(dnoRows, article)
               /\ UNCHANGED dnoFile
               /\ IF DeleteRowcount(dnoRows, article) > 0
                  THEN /\ new_found_dnos < MaxDnoChanges
                       /\ alert' = Alert("Success", "removed from DNO.", article, 0)
                       /\ new_found_dnos' = new_found_dnos + 1
                  ELSE /\ alert' = Alert("Not Found", "was not in DNO.", article, 0)
                       /\ UNCHANGED new_found_dnos
    /\ lastOp' = "remove_from_DNO"
    /\ raised' = "none"
    /\ HistoryUnchanged
    /\ InventoryUnchanged
    /\ SessionUnchanged

\* -------------------------------------------------------- inventory table
\* cat == bad in place of cat.startswith(bad)
is_banned_Exact(cat) == \E i \in DOMAIN BANNED_CATS : cat = BANNED_CATS[i]

\* upload_excel, lines 271-272
is_banned(cat) == \E i \in DOMAIN BANNED_CATS : startswith(cat, BANNED_CATS[i])

\* upload_excel, line 274: the rows whose category is not banned
FilterBanned(rows) == SelectSeq(rows, LAMBDA r : ~is_banned(r.MerchandiseCategory))

RECURSIVE TakeIndices(_, _, _)
TakeIndices(rows, keep, i) ==
    IF i > Len(rows) THEN <<>>
    ELSE (IF i \in keep THEN <<rows[i]>> ELSE <<>>) \o TakeIndices(rows, keep, i + 1)

\* keep="first" in place of keep="last"
drop_duplicates_KeepFirst(rows) ==
    LET keep == {i \in 1..Len(rows) :
                    \A j \in 1..(i - 1) : rows[j].Article # rows[i].Article}
    IN  TakeIndices(rows, keep, 1)

\* DataFrame.drop_duplicates(subset=["Article"], keep="last", ignore_index=True)
drop_duplicates(rows) ==
    LET keep == {i \in 1..Len(rows) :
                    \A j \in (i + 1)..Len(rows) : rows[j].Article # rows[i].Article}
    IN  TakeIndices(rows, keep, 1)

\* upload_excel, lines 258-264: the lights turned on by the first column
LightsAfter(lights, rows) ==
    [k \in DOMAIN departments |->
        lights[k] \/ \E i \in 1..Len(rows) : rows[i].Department \in departments[k]]

\* upload_excel, lines 276-285
Merge(df, new_df) ==
    drop_duplicates(IF df = <<>> THEN new_df ELSE df \o new_df)

DnoUnchanged == UNCHANGED <<dnoFile, dnoRows, new_found_dnos>>

upload_excel ==
    /\ ~closed
    /\ \/ \* line 250: the file dialog was cancelled
          /\ raised' = "none"
          /\ dropped' = 0
          /\ UNCHANGED <<df_inventory, lights_bool, lastIngested>>
       \/ \E book \in Workbooks :
             /\ lights_bool' = LightsAfter(lights_bool, book.rows)
             /\ IF book.columns
                THEN /\ df_inventory' = Merge(df_inventory, FilterBanned(book.rows))
                     /\ raised' = "none"
                     /\ lastIngested' = LastWins(lastIngested, book.rows)
                     /\ dropped' = DroppedCount(book.rows)
                ELSE \* line 269: new_df[columns] raises KeyError, nothing catches it
                     /\ raised' = "KeyError"
                     /\ dropped' = 0
                     /\ UNCHANGED <<df_inventory, lastIngested>>
    /\ lastOp' = "upload_excel"
    /\ alert' = NoAlert
    /\ lastSheetIds' = {}
    /\ UNCHANGED <<filtered_zeros, filtered_lows, zero_count>>
    /\ DnoUnchanged
    /\ SessionUnchanged

\* ------------------------------------------------------------- classifier
\* Series.isin(dno_set): the list holds Python ints, which a text cell never equals
isin(article, dno_set) == article.t = "int" /\ article.n \in dno_set

\* find_zeros, lines 293-298: the articles of zero_df
ZeroArticles(df, dno_set) ==
    {df[i].Article : i \in {j \in 1..Len(df) :
                              df[j].Inventory <= 0 /\ ~isin(df[j].Article, dno_set)}}

\* low_df with the DNO articles taken out, as find_zeros does for zero_df
LowArticles_ExcludeDno(df) ==
    {df[i].Article : i \in {j \in 1..Len(df) :
        /\ df[j].Inventory > 0
        /\ df[j].Inventory <= LOW_THRESHOLD
        /\ ~isin(df[j].Article, fetch_dno_articles(dnoFile, dnoRows).val)}}

\* find_lows, lines 313-315: the articles of low_df
LowArticles(df) ==
    {df[i].Article : i \in {j \in 1..Len(df) :
                              df[j].Inventory > 0 /\ df[j].Inventory <= LOW_THRESHOLD}}

\* the set replaced by the articles of this run
AccumulateZeros_Replace(zeros, found) == found

\* find_zeros, lines 300-301
AccumulateZeros(zeros, found) == zeros \cup found

\* find_lows, lines 317-318
AccumulateLows(lows, found) == lows \cup found

find_zeros ==
    /\ ~closed
    /\ IF df_inventory = <<>>
       THEN /\ alert' = Alert("No Data", "Please upload Excel first.", <<>>, 0)
            /\ raised' = "none"
            /\ UNCHANGED <<dnoFile, filtered_zeros, zero_count>>
       ELSE LET fetched == fetch_dno_articles(dnoFile, dnoRows) IN
            /\ dnoFile' = fetched.file
            /\ raised' = fetched.raised
            /\ IF fetched.raised # "none"
               THEN \* line 296: the ValueError of int() leaves find_zeros uncaught
                    /\ alert' = NoAlert
                    /\ UNCHANGED <<filtered_zeros, zero_count>>
               ELSE LET zeros == AccumulateZeros(filtered_zeros,
                                                 ZeroArticles(df_inventory, fetched.val)) IN
                    /\ filtered_zeros' = zeros
                    /\ zero_count' = Cardinality(zeros)
                    /\ alert' = Alert("Success", "Found Zeros.", <<>>, Cardinality(zeros))
    /\ lastOp' = "find_zeros"
    /\ HistoryUnchanged
    /\ UNCHANGED <<dnoRows, new_found_dnos, df_inventory, filtered_lows, lights_bool>>
    /\ SessionUnchanged

find_lows ==
    /\ ~closed
    /\ IF df_inventory = <<>>
       THEN /\ alert' = Alert("No Data", "Please upload Excel first.", <<>>, 0)
            /\ UNCHANGED filtered_lows
       ELSE LET lows == AccumulateLows(filtered_lows, LowArticles(df_inventory)) IN
            /\ filtered_lows' = lows
            /\ alert' = Alert("Success", "Found Lows", <<>>, Cardinality(lows))
    /\ lastOp' = "find_lows"
    /\ raised' = "none"
    /\ HistoryUnchanged
    /\ UNCHANGED <<df_inventory, filtered_zeros, zero_count, lights_bool>>
    /\ DnoUnchanged
    /\ SessionUnchanged

\* ------------------------------------------------------------- SAP replay
\* send_to_SAP: data_list is a copy of the set; process_lines calls .strip()
\* on each element, which a Python int does not have (AttributeError).  The
\* keystrokes go to the external application, outside the state.
Replay(data, noneTitle, doneMsg, confirm) ==
    IF data = {}
    THEN /\ alert' = Alert(noneTitle, "nothing to send.", <<>>, 0)
         /\ raised' = "none"
    ELSE IF ~confirm
    THEN /\ alert' = NoAlert
         /\ raised' = "none"
    ELSE IF \E art \in data : art.t # "str"
    THEN /\ alert' = NoAlert
         /\ raised' = "AttributeError"
    ELSE /\ alert' = Alert("Done", doneMsg, <<>>, 0)
         /\ raised' = "none"

send_to_SAP ==
    /\ ~closed
    /\ \E mode \in {0, 1}, confirm \in BOOLEAN :
          IF mode = 1
          THEN Replay(filtered_lows, "No Lows", "Low-inventory articles sent to SAP.", confirm)
          ELSE Replay(filtered_zeros, "No Zeros", "Zero-inventory articles sent to SAP.", confirm)
    /\ lastOp' = "send_to_SAP"
    /\ HistoryUnchanged
    /\ InventoryUnchanged
    /\ DnoUnchanged
    /\ SessionUnchanged

\* ------------------------------------------------------ logging and close
\* log_activity: nothing in the program ever sets self.inputted
log_activity(flag, entries) ==
    IF flag
    THEN Append(entries, [zeros |-> Cardinality(filtered_zeros),
                          lows |-> Cardinality(filtered_lows),
                          dnos |-> new_found_dnos])
    ELSE entries

close_app ==
    /\ ~closed
    /\ log' = log_activity(inputted, log)
    /\ closed' = TRUE
    /\ lastOp' = "close_app"
    /\ HistoryUnchanged
    /\ alert' = NoAlert
    /\ raised' = "none"
    /\ UNCHANGED inputted
    /\ InventoryUnchanged
    /\ DnoUnchanged

\* every handler the window offers
Next ==
    \/ import_dno
    \/ export_dno
    \/ add_new_DNO
    \/ remove_from_DNO
    \/ upload_excel
    \/ find_zeros
    \/ find_lows
    \/ send_to_SAP
    \/ close_app

Spec == Init /\ [][Next]_vars

\* ================================================================== claims
\* the identifiers dno.db holds
StoredIds == IF dnoFile = "table" THEN dnoRows ELSE {}

\* the identifier of an inventory article, as text
IdOf(article) == IF article.t = "str" THEN article.s ELSE IntToStr(article.n)

\* members() as the program computes it, each returned number read as its text
MemberIds(file, rows) == {IntToStr(n) : n \in fetch_dno_articles(file, rows).val}

\* C1: after a confirmed add of an identifier, members() is the store before
\* with the identifier inserted (nothing changes when it was there); after a
\* confirmed remove it is the store before without the identifier (nothing
\* changes when it was absent, or when the store had never been created).
C1_MembersNetEffect ==
    [][/\ (lastOp' = "add_new_DNO" /\ alert'.title = "Inserted") =>
             /\ fetch_dno_articles(dnoFile', dnoRows').raised = "none"
             /\ MemberIds(dnoFile', dnoRows') = StoredIds \cup {alert'.article}
       /\ (lastOp' = "remove_from_DNO" /\ alert'.title \in {"Success", "Not Found"}) =>
             /\ fetch_dno_articles(dnoFile', dnoRows').raised = "none"
             /\ MemberIds(dnoFile', dnoRows') = StoredIds \ {alert'.article}
       /\ (lastOp' = "remove_from_DNO" /\ alert'.title = "Error") =>
             /\ fetch_dno_articles(dnoFile', dnoRows').raised = "none"
             /\ MemberIds(dnoFile', dnoRows') = StoredIds
      ]_vars

\* C2: a call of find_zeros on a non-empty inventory adds to the zero set no
\* article whose identifier is in the DNO store at the call, and adds every
\* article with inventory <= 0 whose identifier is not in the store.
C2_ZerosExcludeDno ==
    [][(lastOp' = "find_zeros" /\ df_inventory # <<>>) =>
          /\ \A a \in filtered_zeros' \ filtered_zeros : IdOf(a) \notin StoredIds
          /\ \A i \in 1..Len(df_inventory) :
                (/\ df_inventory[i].Inventory <= 0
                 /\ IdOf(df_inventory[i].Article) \notin StoredIds)
                => df_inventory[i].Article \in filtered_zeros'
      ]_vars

C4_NoBannedRecord ==
    /\ \A i \in 1..Len(df_inventory) :
          ~HasBannedPrefix(df_inventory[i].MerchandiseCategory)
    /\ \A a \in filtered_zeros \cup filtered_lows :
          \E r \in lastIngested :
             r.Article = a /\ ~HasBannedPrefix(r.MerchandiseCategory)

\* an upload has just dropped a banned row, and the table holds records
C4_Witness ==
    /\ lastOp = "upload_excel"
    /\ dropped > 0
    /\ df_inventory # <<>>

\* C5: no step takes an identifier out of the zero set or of the low set; only
\* find_zeros changes the zero set and only find_lows the low set, and what
\* they add are articles of the current table with the counts of their class.
C5_SetsOnlyGrow ==
    [][/\ filtered_zeros \subseteq filtered_zeros'
       /\ filtered_lows \subseteq filtered_lows'
       /\ lastOp' # "find_zeros" => filtered_zeros' = filtered_zeros
       /\ lastOp' # "find_lows" => filtered_lows' = filtered_lows
       /\ \A a \in filtered_zeros' \ filtered_zeros :
             \E i \in 1..Len(df_inventory) :
                df_inventory[i].Article = a /\ df_inventory[i].Inventory <= 0
       /\ \A a \in filtered_lows' \ filtered_lows :
             \E i \in 1..Len(df_inventory) :
                df_inventory[i].Article = a /\ df_inventory[i].Inventory > 0
      ]_vars

\* find_zeros ran on a table in which a member of the zero set no longer has
\* a count <= 0, and the member is still there
C5_Witness ==
    /\ lastOp = "find_zeros"
    /\ alert.title = "Success"
    /\ \E a \in filtered_zeros :
          \A i \in 1..Len(df_inventory) :
             df_inventory[i].Article = a => df_inventory[i].Inventory > 0

\* C6: find_lows on a non-empty inventory adds exactly the articles with
\* 0 < inventory <= 2, whether or not their identifier is in the DNO store.
C6_LowsIgnoreDno ==
    [][(lastOp' = "find_lows" /\ df_inventory # <<>>) =>
          filtered_lows' = filtered_lows \cup
             {a \in {df_inventory[i].Article : i \in 1..Len(df_inventory)} :
                 \E i \in 1..Len(df_inventory) :
                    /\ df_inventory[i].Article = a
                    /\ 0 < df_inventory[i].Inventory
                    /\ df_inventory[i].Inventory <= 2}
      ]_vars

\* find_lows has put an article of the DNO store in the low set
C6_Witness ==
    /\ lastOp = "find_lows"
    /\ \E i \in 1..Len(df_inventory) :
          /\ df_inventory[i].Inventory > 0
          /\ IdOf(df_inventory[i].Article) \in StoredIds
          /\ df_inventory[i].Article \in filtered_lows

\* C7: a workbook import reports the number of distinct normalized identifiers
\* of the workbook that were not in the store and leaves the store holding the
\* old identifiers and those; importing the same workbook again right after
\* reports 0 and leaves the store as it was.
C7_ImportCount ==
    [][(lastOp' = "import_dno" /\ alert'.title = "") =>
          /\ alert'.count = Cardinality(lastSheetIds' \ StoredIds)
          /\ StoredIds' = StoredIds \cup lastSheetIds'
          /\ (lastOp = "import_dno" /\ alert.title = "" /\ lastSheetIds' = lastSheetIds) =>
                (alert'.count = 0 /\ StoredIds' = StoredIds)
      ]_vars

\* an import of a workbook that holds identifiers has reported nothing new, in
\* a session that had changed the store before
C7_Witness ==
    /\ lastOp = "import_dno"
    /\ alert.msg = "No new DNO articles or all duplicates."
    /\ lastSheetIds # {}
    /\ new_found_dnos > 0

\* C8: a confirmed remove never raises, reports "removed" exactly when a row
\* was deleted, and reports "was not present" whenever none was, also on a
\* store that was never created.
C8_RemoveOutcome ==
    [][(lastOp' = "remove_from_DNO" /\ alert' # NoAlert) =>
          /\ raised' = "none"
          /\ (alert'.title = "Success") <=> (StoredIds' # StoredIds)
          /\ (StoredIds' = StoredIds) => (alert'.title = "Not Found")
      ]_vars

\* the state shows that a mutating action ran in this session
MutationEvidence ==
    \/ new_found_dnos > 0
    \/ df_inventory # <<>>
    \/ filtered_zeros # {}
    \/ filtered_lows # {}

\* C9: closing the application appends exactly one entry to the session log
\* when a mutating action ran in the session, and none when no action ran.
C9_LogOnClose ==
    [][lastOp' = "close_app" =>
          /\ MutationEvidence => Len(log') = Len(log) + 1
          /\ lastOp = "init" => log' = log
      ]_vars

\* C10: no failure leaves import, export, add, remove, upload, find_zeros or
\* find_lows uncaught.
C10_NoUncaughtFailure ==
    lastOp \in {"import_dno", "export_dno", "add_new_DNO", "remove_from_DNO",
                "upload_excel", "find_zeros", "find_lows"}
    => raised = "none"

====
